---------------------------- MODULE Spec2Model ----------------------------
(***************************************************************************)
(* Model of training_scripts/lincs_experiment.py: the command-line run     *)
(* (argument parsing, model-variant lookup, construction of the augmented  *)
(* experiment, callbacks, trainer, training loop, final save) and the      *)
(* lifecycle hooks CondGenExperiment adds to a base model (mi_computation, *)
(* training_step, configure_optimizers, validation_step, validation_end).  *)
(*                                                                         *)
(* Conventions.  An optional value is a sequence of length 0 or 1.  A      *)
(* Python dict is a function with a set of strings as its domain.  A       *)
(* string built by concatenation or format() is the tuple of its parts.    *)
(* A GPU device is <<"cuda", i>>.  A tensor of n rows is a sequence of n    *)
(* integers, a scalar tensor an integer.                                   *)
(***************************************************************************)
EXTENDS Integers, Sequences, FiniteSets, TLC

VARIABLES
    argv,        \* the command line: [model, gpu], each optional
    rnnCkpt,     \* whether ../saved_models/rnn_enc.ckpt exists
    pc,          \* position of the __main__ block
    args,        \* argparse namespace: [model, gpu]
    baseClass,   \* optional: models_dict[args.model]
    model,       \* optional: the constructed CondGenExperiment instance
    devices,     \* devices the steps of the run have targeted so far
    error,       \* optional: the exception that ended the run
    checkpoint,  \* optional: the ModelCheckpoint callback
    logger,      \* optional: the TestTubeLogger
    trainer,     \* optional: the pl.Trainer
    epoch,       \* epochs the training loop has completed
    sinceCheck,  \* ModelCheckpoint's epochs since its last save
    written,     \* checkpoint files written, in order
    hook,        \* lifecycle hook being executed, or "idle"
    call         \* inputs, intermediate values and result of that hook call

runVars == <<argv, rnnCkpt, pc, args, baseClass, model, devices, error,
             checkpoint, logger, trainer, epoch, sinceCheck, written>>
hookVars == <<hook, call>>
vars == <<argv, rnnCkpt, pc, args, baseClass, model, devices, error,
          checkpoint, logger, trainer, epoch, sinceCheck, written, hook, call>>

----------------------------------------------------------------------------
(* Bounds of the model *)

\* GPU indices on the command line range over -(MaxGpu+1) .. MaxGpu
MaxGpu == 1

(* Program constants *)

\* parser.add_argument('--gpu', type=int, default=-1)
DefaultGpu == -1
\* map_location='cuda:1'
MapLocationIndex == 1
\* ModelCheckpoint(..., period=10)
Period == 10
\* pl.Trainer(..., max_nb_epochs=400, ...)
MaxNbEpochs == 400

----------------------------------------------------------------------------
(* The command-line run *)

None == <<>>
Some(v) == <<v>>
Val(o) == o[1]

\* parser.add_argument('--model', type=str, default='biaae')
DefaultModel == "biaae"

models_dict_swapped ==
    [k \in {"biaae", "lat_saae", "uniaae", "cvae", "vcca", "jmvae", "vib", "saae"} |->
        CASE k = "biaae"    -> "BiAAE"
          [] k = "lat_saae" -> "Lat_SAAE"
          [] k = "uniaae"   -> "UniAAE"
          [] k = "cvae"     -> "CVAE"
          [] k = "vcca"     -> "VCCA"
          [] k = "jmvae"    -> "JMVAE"
          [] k = "vib"      -> "VIB"
          [] k = "saae"     -> "Lat_SAAE"]

models_dict ==
    [k \in {"biaae", "lat_saae", "uniaae", "cvae", "vcca", "jmvae", "vib", "saae"} |->
        CASE k = "biaae"    -> "BiAAE"
          [] k = "lat_saae" -> "Lat_SAAE"
          [] k = "uniaae"   -> "UniAAE"
          [] k = "cvae"     -> "CVAE"
          [] k = "vcca"     -> "VCCA"
          [] k = "jmvae"    -> "JMVAE"
          [] k = "vib"      -> "VIB"
          [] k = "saae"     -> "SAAE"]

\* values of --model tried: every registered key and two unregistered ones
ModelArgs == DOMAIN models_dict \cup {"BiAAE", "gan"}
GpuArgs == (0 - (MaxGpu + 1)) .. MaxGpu

Cuda(i) == <<"cuda", i>>
IsCuda(d) == d[1] = "cuda"

\* '../saved_models/lincs_rnn_' + args.model
CheckpointDir(key) == <<"../saved_models/lincs_rnn_", key>>
\* 'lincs_rnn_' + args.model
LogName(key) == <<"lincs_rnn_", key>>
\* '../saved_models/lincs_rnn_{}.ckpt'.format(args.model)
FinalCheckpointFile(key) == <<"../saved_models/lincs_rnn_", key, ".ckpt">>

\* gpus=([] if (args.gpu < 0) else [args.gpu])
TrainerGpus(gpu) == IF gpu < 0 THEN <<>> ELSE <<gpu>>

InitRun ==
    /\ argv \in [model : {None} \cup {Some(k) : k \in ModelArgs},
                 gpu : {None} \cup {Some(g) : g \in GpuArgs}]
    /\ rnnCkpt \in BOOLEAN
    /\ pc = "parse"
    /\ args = None
    /\ baseClass = None
    /\ model = None
    /\ devices = {}
    /\ error = None
    /\ checkpoint = None
    /\ logger = None
    /\ trainer = None
    /\ epoch = 0
    /\ sinceCheck = 0
    /\ written = <<>>

\* args = parser.parse_args()
ParseArgs ==
    /\ pc = "parse"
    /\ args' = Some([model |-> IF argv.model = None THEN DefaultModel ELSE Val(argv.model),
                     gpu |-> IF argv.gpu = None THEN DefaultGpu ELSE Val(argv.gpu)])
    /\ pc' = "lookup"
    /\ UNCHANGED <<argv, rnnCkpt, baseClass, model, devices, error, checkpoint,
                   logger, trainer, epoch, sinceCheck, written, hook, call>>

\* models_dict[args.model]: a KeyError for a key that is not registered
LookupModel ==
    /\ pc = "lookup"
    /\ IF Val(args).model \in DOMAIN models_dict
         THEN /\ baseClass' = Some(models_dict[Val(args).model])
              /\ pc' = "construct"
              /\ error' = error
         ELSE /\ error' = Some("KeyError")
              /\ pc' = "error"
              /\ baseClass' = baseClass
    /\ UNCHANGED <<argv, rnnCkpt, args, model, devices, checkpoint,
                   logger, trainer, epoch, sinceCheck, written, hook, call>>

\* make_conditional_experiment(...)(): CondGenExperiment.__init__ proceeding
\* although the pretrained encoder checkpoint is missing
InitExperimentNoLoad ==
    /\ pc = "construct"
    /\ devices' = IF rnnCkpt THEN devices \cup {Cuda(MapLocationIndex)} ELSE devices
    /\ model' = Some([base |-> Val(baseClass), dataset |-> "lincs_rnn",
                      mi_modules |-> {"mine_enc", "mine_fc"}])
    /\ pc' = "checkpoint"
    /\ error' = error
    /\ UNCHANGED <<argv, rnnCkpt, args, baseClass, checkpoint,
                   logger, trainer, epoch, sinceCheck, written, hook, call>>

\* make_conditional_experiment(...)(): CondGenExperiment.__init__.  torch.load
\* raises when the file is missing, and maps the tensors it reads to cuda:1.
InitExperiment ==
    /\ pc = "construct"
    /\ IF rnnCkpt
         THEN /\ devices' = devices \cup {Cuda(MapLocationIndex)}
              /\ model' = Some([base |-> Val(baseClass), dataset |-> "lincs_rnn",
                                mi_modules |-> {"mine_enc", "mine_fc"}])
              /\ pc' = "checkpoint"
              /\ error' = error
         ELSE /\ error' = Some("IOError")
              /\ pc' = "error"
              /\ UNCHANGED <<devices, model>>
    /\ UNCHANGED <<argv, rnnCkpt, args, baseClass, checkpoint,
                   logger, trainer, epoch, sinceCheck, written, hook, call>>

\* model_checkpoint = ModelCheckpoint(dir, save_best_only=False, period=10)
MakeCheckpoint ==
    /\ pc = "checkpoint"
    /\ checkpoint' = Some([filepath |-> CheckpointDir(Val(args).model),
                           save_best_only |-> FALSE, period |-> Period])
    /\ pc' = "logger"
    /\ UNCHANGED <<argv, rnnCkpt, args, baseClass, model, devices, error,
                   logger, trainer, epoch, sinceCheck, written, hook, call>>

\* logger = TestTubeLogger(save_dir='../logs/', name='lincs_rnn_' + args.model)
MakeLogger ==
    /\ pc = "logger"
    /\ logger' = Some([save_dir |-> "../logs/", name |-> LogName(Val(args).model)])
    /\ pc' = "trainer"
    /\ UNCHANGED <<argv, rnnCkpt, args, baseClass, model, devices, error,
                   checkpoint, trainer, epoch, sinceCheck, written, hook, call>>

\* tr = pl.Trainer(gpus=..., logger=logger, checkpoint_callback=model_checkpoint,
\*                 early_stop_callback=False, max_nb_epochs=400, ...)
MakeTrainer ==
    /\ pc = "trainer"
    /\ trainer' = Some([gpus |-> TrainerGpus(Val(args).gpu),
                        logger |-> Val(logger),
                        checkpoint_callback |-> Val(checkpoint),
                        early_stop_callback |-> FALSE,
                        max_nb_epochs |-> MaxNbEpochs])
    /\ devices' = devices \cup {Cuda(TrainerGpus(Val(args).gpu)[i]) :
                                   i \in 1 .. Len(TrainerGpus(Val(args).gpu))}
    /\ pc' = "fit"
    /\ UNCHANGED <<argv, rnnCkpt, args, baseClass, model, error,
                   checkpoint, logger, epoch, sinceCheck, written, hook, call>>

\* the mutant of ShouldSave: the callback keeps only improved models
ShouldSaveBestOnly(cb, since, improved) == since >= cb.period /\ improved

\* ModelCheckpoint at the end of an epoch, `since` epochs after its last save
ShouldSave(cb, since, improved) ==
    since >= cb.period /\ (cb.save_best_only => improved)

\* tr.fit(model): one epoch of the training loop, then the checkpoint callback
FitEpoch ==
    /\ pc = "fit"
    /\ epoch < Val(trainer).max_nb_epochs
    /\ epoch' = epoch + 1
    /\ \E improved \in BOOLEAN :
         IF ShouldSave(Val(trainer).checkpoint_callback, sinceCheck + 1, improved)
           THEN /\ sinceCheck' = 0
                /\ written' = Append(written,
                       [kind |-> "periodic",
                        path |-> Val(trainer).checkpoint_callback.filepath,
                        epoch |-> epoch + 1])
           ELSE /\ sinceCheck' = sinceCheck + 1
                /\ written' = written
    /\ UNCHANGED <<argv, rnnCkpt, pc, args, baseClass, model, devices, error,
                   checkpoint, logger, trainer, hook, call>>

\* tr.fit(model): an exception raised inside the training loop propagates
FitFail ==
    /\ pc = "fit"
    /\ error' = Some("FitError")
    /\ pc' = "error"
    /\ UNCHANGED <<argv, rnnCkpt, args, baseClass, model, devices,
                   checkpoint, logger, trainer, epoch, sinceCheck, written,
                   hook, call>>

\* tr.fit(model) returns after max_nb_epochs epochs
FitReturn ==
    /\ pc = "fit"
    /\ epoch = Val(trainer).max_nb_epochs
    /\ pc' = "save"
    /\ UNCHANGED <<argv, rnnCkpt, args, baseClass, model, devices, error,
                   checkpoint, logger, trainer, epoch, sinceCheck, written,
                   hook, call>>

\* torch.save(model.state_dict(), '../saved_models/lincs_rnn_{}.ckpt'.format(...))
SaveFinal ==
    /\ pc = "save"
    /\ written' = Append(written,
           [kind |-> "final", path |-> FinalCheckpointFile(Val(args).model),
            epoch |-> epoch])
    /\ pc' = "done"
    /\ UNCHANGED <<argv, rnnCkpt, args, baseClass, model, devices, error,
                   checkpoint, logger, trainer, epoch, sinceCheck, hook, call>>

Init ==
    /\ InitRun
    /\ hook = "idle"
    /\ call = None

Next ==
    \/ ParseArgs
    \/ LookupModel
    \/ InitExperiment
    \/ MakeCheckpoint
    \/ MakeLogger
    \/ MakeTrainer
    \/ FitEpoch
    \/ FitFail
    \/ FitReturn
    \/ SaveFinal

Spec == Init /\ [][Next]_vars


----------------------------------------------------------------------------
(* The lifecycle hooks of CondGenExperiment *)

(* Bounds of the model *)

\* rows of a batch: 1 .. MaxBatch (the validation image keeps 5 rows)
MaxBatch == 6
\* optimizer indices passed to training_step: 0 .. MaxOptIdx
MaxOptIdx == 3
\* optimizers a base model's configure_optimizers returns: 1 .. MaxBaseOptims
MaxBaseOptims == 3
\* per-batch results handed to validation_end: 0 .. MaxOutputs
MaxOutputs == 2
\* MI estimates in those results: 0 .. MaxMi
MaxMi == 2

(* Program constants *)

\* if args[0] == 2: # optimizer number
MiOptimizerIdx == 2
\* outputs[0]['x_sam'][:5], outputs[0]['x'][:5], molsPerRow=5
NSamples == 5

RECURSIVE Sum(_)
Sum(s) == IF s = <<>> THEN 0 ELSE Head(s) + Sum(Tail(s))

RECURSIVE Log(_)
(* Tensor arithmetic over the integers: mean() is the floor of the average, *)
(* exp() is 2^s, log() is the floor of its inverse.                         *)
Mean(s) == Sum(s) \div Len(s)
Exp(v) == 2 ^ v
Log(v) == IF v < 2 THEN 0 ELSE 1 + Log(v \div 2)

\* a Python slice s[:k]
Take(s, k) == SubSeq(s, 1, IF Len(s) < k THEN Len(s) ELSE k)

\* a Python dict assignment d[k] = v
DictSet(d, k, v) == (k :> v) @@ d
EmptyDict == <<>>

(* The dataset: row r holds the molecule r (a SMILES string) and its       *)
(* condition.  A batch (x, y) holds n consecutive rows after an offset.     *)
Batch(offset, n) == [x |-> [i \in 1 .. n |-> offset + i],
                     y |-> [i \in 1 .. n |-> (offset + i) % 3]]
Batches == {Batch(o, n) : o \in 0 .. 1, n \in 1 .. MaxBatch}

(* The networks, as fixed functions of their inputs (their parameters do   *)
(* not change during a hook call).                                         *)
\* self.get_latents(batch), of the base model
get_latents(batch) == [i \in 1 .. Len(batch.x) |-> (batch.x[i] * batch.x[i] + batch.y[i]) % 3]
\* self.sample(y), of the base model: one generated SMILES string per row
sample(y) == [i \in 1 .. Len(y) |-> 10 + 2 * i + y[i]]
\* self.mine_enc(x)
mine_enc(x) == [i \in 1 .. Len(x) |-> x[i] % 4]
\* torch.cat((a, b), dim=-1): row i is row i of a followed by row i of b
cat(a, b) == [i \in 1 .. Len(a) |-> <<a[i], b[i]>>]
\* self.mine_fc(rows): one score per row
mine_fc(rows) == [i \in 1 .. Len(rows) |-> (rows[i][1] + 3 * rows[i][2]) % 4]
\* Chem.MolFromSmiles(s): None for a string that is no valid SMILES
MolFromSmiles(s) == IF s % 3 = 0 THEN None ELSE Some(s)

\* np.random.permutation(n)
Perms(n) == Permutations(1 .. n)
Identity(n) == [i \in 1 .. n |-> i]

\* the mutant of mi_computation: the paired term is scored on the shuffled
\* latents too
mi_computation_shuffled_pairs(batch, z, perm) ==
    LET x == batch.x
        z_shuffled == [i \in 1 .. Len(z) |-> z[perm[i]]]
        x_lat == mine_enc(x)
        t == mine_fc(cat(x_lat, z_shuffled))
        et == [i \in 1 .. Len(z) |-> Exp(mine_fc(cat(x_lat, z_shuffled))[i])]
    IN  [z_shuffled |-> z_shuffled, x_lat |-> x_lat, t |-> t, et |-> et,
         mi_lb |-> Mean(t) - Log(Mean(et)),
         z |-> z, batch |-> batch]

\* CondGenExperiment.mi_computation(batch, z), perm being the permutation drawn
mi_computation(batch, z, perm) ==
    LET x == batch.x
        z_shuffled == [i \in 1 .. Len(z) |-> z[perm[i]]]
        x_lat == mine_enc(x)
        t == mine_fc(cat(x_lat, z))
        et == [i \in 1 .. Len(z) |-> Exp(mine_fc(cat(x_lat, z_shuffled))[i])]
    IN  [z_shuffled |-> z_shuffled, x_lat |-> x_lat, t |-> t, et |-> et,
         mi_lb |-> Mean(t) - Log(Mean(et)),
         z |-> z, batch |-> batch]

\* whether training_step reaches mi_computation for these *args
ComputesMi(targs) == Len(targs) = 0 \/ targs[1] = MiOptimizerIdx

\* the mutant of training_step: the MI term is added to the loss
training_step_plus_mi(batch, targs, baseStats, perm) ==
    LET mi == mi_computation(batch, get_latents(batch), perm).mi_lb
    IN  IF Len(targs) = 0
          THEN [calls |-> <<"super.training_step", "get_latents", "mi_computation">>,
                mi |-> Some(mi),
                stats |-> [baseStats EXCEPT !["loss"] = @ + mi,
                                            !["log"] = DictSet(@, "mi[xz|y]", mi)]]
          ELSE IF targs[1] = MiOptimizerIdx
                 THEN [calls |-> <<"super.training_step", "get_latents", "mi_computation">>,
                       mi |-> Some(mi),
                       stats |-> DictSet(DictSet(EmptyDict, "loss", mi),
                                         "log", DictSet(EmptyDict, "mi[xz|y]", mi))]
                 ELSE [calls |-> <<"super.training_step">>,
                       mi |-> None,
                       stats |-> baseStats]

\* CondGenExperiment.training_step(batch, batch_nb, *args), baseStats being
\* what super().training_step(batch, batch_nb, *args) returned.  detach()
\* cuts the gradient and leaves the values of y and z as they are.
training_step(batch, targs, baseStats, perm) ==
    LET mi == mi_computation(batch, get_latents(batch), perm).mi_lb
    IN  IF Len(targs) = 0
          THEN [calls |-> <<"super.training_step", "get_latents", "mi_computation">>,
                mi |-> Some(mi),
                stats |-> [baseStats EXCEPT !["loss"] = @ + (0 - mi),
                                            !["log"] = DictSet(@, "mi[xz|y]", mi)]]
          ELSE IF targs[1] = MiOptimizerIdx
                 THEN [calls |-> <<"super.training_step", "get_latents", "mi_computation">>,
                       mi |-> Some(mi),
                       stats |-> DictSet(DictSet(EmptyDict, "loss", 0 - mi),
                                         "log", DictSet(EmptyDict, "mi[xz|y]", mi))]
                 ELSE [calls |-> <<"super.training_step">>,
                       mi |-> None,
                       stats |-> baseStats]

\* what a base model's training_step may return: a loss, a log dict, and
\* possibly further entries
BaseTrainStats ==
    {[loss |-> l, log |-> [base_loss |-> l]] : l \in 0 .. 1}
      \cup {[loss |-> 1, log |-> [base_loss |-> 1], progress_bar |-> [base_loss |-> 1]]}

BaseOptimizer(i) == [algo |-> "base", params |-> {<<"base", i>>}]
\* torch.optim.Adam(ModuleList([self.mine_fc, self.mine_enc]).parameters(), lr=3e-4)
MiOptimizer == [algo |-> "Adam", params |-> {"mine_fc", "mine_enc"}, lr |-> "3e-4"]

\* what a base model's configure_optimizers may return: a tuple (list of
\* optimizers, list of schedulers), a bare list of optimizers, or one optimizer
BaseOptims ==
    {[type |-> ty, optimizers |-> [i \in 1 .. n |-> BaseOptimizer(i)],
      schedulers |-> IF ty = "tuple" THEN <<"scheduler">> ELSE <<>>] :
        ty \in {"tuple", "list"}, n \in 1 .. MaxBaseOptims}
      \cup {[type |-> "optimizer", optimizers |-> <<BaseOptimizer(1)>>, schedulers |-> <<>>]}

\* the mutant of configure_optimizers: the MI optimizer is inserted first
configure_optimizers_first(optim) ==
    IF optim.type = "tuple"
      THEN [optim EXCEPT !.optimizers = <<MiOptimizer>> \o @]
      ELSE optim

\* CondGenExperiment.configure_optimizers(), optim being what
\* super().configure_optimizers() returned
configure_optimizers(optim) ==
    IF optim.type = "tuple"
      THEN [optim EXCEPT !.optimizers = Append(@, MiOptimizer)]
      ELSE optim

\* what a base model's validation_step(), called without arguments, may
\* return: nothing, or a dict of statistics
BaseValStats ==
    {None, Some([val_loss |-> 1]), Some([val_loss |-> 0, x |-> <<7>>])}

\* the mutant of validation_step: the base's result is used as returned
validation_step_no_default(batch, baseRet, perm) ==
    LET stats == IF baseRet = None THEN None ELSE Val(baseRet)
        mi == mi_computation(batch, get_latents(batch), perm).mi_lb
    IN  IF stats = None
          THEN [raised |-> TRUE, stats |-> EmptyDict, superArgs |-> <<>>]
          ELSE [raised |-> FALSE, superArgs |-> <<>>,
                stats |-> DictSet(DictSet(DictSet(DictSet(stats,
                              "mi[xz|y]", mi), "x_sam", sample(batch.y)),
                              "x", batch.x), "y", batch.y)]

\* CondGenExperiment.validation_step(batch, batch_nb), baseRet being what
\* super().validation_step() returned
validation_step(batch, baseRet, perm) ==
    LET stats == IF baseRet = None THEN EmptyDict ELSE Val(baseRet)
        mi == mi_computation(batch, get_latents(batch), perm).mi_lb
    IN  [raised |-> FALSE, superArgs |-> <<>>,
         stats |-> DictSet(DictSet(DictSet(DictSet(stats,
                       "mi[xz|y]", mi), "x_sam", sample(batch.y)),
                       "x", batch.x), "y", batch.y)]

\* a per-batch result as validation_end receives it: what validation_step
\* returned for the batch, base being the base's stats and mi the MI estimate
ValOutput(batch, mi, base) ==
    DictSet(DictSet(DictSet(DictSet(base,
        "mi[xz|y]", mi), "x_sam", sample(batch.y)), "x", batch.x), "y", batch.y)

\* the mutant of validation_end: the image shows the last batch
validation_end_last(outputs) ==
    IF outputs = <<>>
      THEN [raised |-> TRUE, images |-> <<>>, ret |-> None]
      ELSE LET m == Mean([i \in 1 .. Len(outputs) |-> outputs[i]["mi[xz|y]"]])
               last == outputs[Len(outputs)]
               mols == [i \in 1 .. Len(Take(last["x_sam"], NSamples)) |->
                           MolFromSmiles(last["x_sam"][i])]
                       \o [i \in 1 .. Len(Take(last["x"], NSamples)) |->
                           MolFromSmiles(last["x"][i])]
           IN  [raised |-> FALSE,
                images |-> <<[tag |-> "samples", mols |-> mols, molsPerRow |-> NSamples]>>,
                ret |-> Some(DictSet(EmptyDict, "log",
                                     DictSet(EmptyDict, "val_mi[xz|y]", m)))]

\* CondGenExperiment.validation_end(outputs).  torch.stack raises on an empty
\* list, before anything is drawn or logged.
validation_end(outputs) ==
    IF outputs = <<>>
      THEN [raised |-> TRUE, images |-> <<>>, ret |-> None]
      ELSE LET m == Mean([i \in 1 .. Len(outputs) |-> outputs[i]["mi[xz|y]"]])
               first == outputs[1]
               mols == [i \in 1 .. Len(Take(first["x_sam"], NSamples)) |->
                           MolFromSmiles(first["x_sam"][i])]
                       \o [i \in 1 .. Len(Take(first["x"], NSamples)) |->
                           MolFromSmiles(first["x"][i])]
           IN  [raised |-> FALSE,
                images |-> <<[tag |-> "samples", mols |-> mols, molsPerRow |-> NSamples]>>,
                ret |-> Some(DictSet(EmptyDict, "log",
                                     DictSet(EmptyDict, "val_mi[xz|y]", m)))]

\* the trainer calls self.mi_computation's callers; called on its own here
MiComputation ==
    /\ hook = "idle"
    /\ \E batch \in Batches : \E perm \in Perms(Len(batch.x)) :
         call' = Some([batch |-> batch, z |-> get_latents(batch), perm |-> perm,
                       out |-> mi_computation(batch, get_latents(batch), perm)])
    /\ hook' = "mi_computation"
    /\ UNCHANGED runVars

\* the trainer calls model.training_step(batch, batch_nb[, optimizer_idx])
TrainingStep ==
    /\ hook = "idle"
    /\ \E batch \in Batches, baseStats \in BaseTrainStats :
       \E targs \in {<<>>} \cup {<<i>> : i \in 0 .. MaxOptIdx} :
       \E perm \in IF ComputesMi(targs) THEN Perms(Len(batch.x))
                                       ELSE {Identity(Len(batch.x))} :
         call' = Some([batch |-> batch, args |-> targs, baseStats |-> baseStats,
                       perm |-> perm,
                       out |-> training_step(batch, targs, baseStats, perm)])
    /\ hook' = "training_step"
    /\ UNCHANGED runVars

\* the trainer calls model.configure_optimizers()
ConfigureOptimizers ==
    /\ hook = "idle"
    /\ \E optim \in BaseOptims :
         call' = Some([base |-> optim, out |-> configure_optimizers(optim)])
    /\ hook' = "configure_optimizers"
    /\ UNCHANGED runVars

\* the trainer calls model.validation_step(batch, batch_nb)
ValidationStep ==
    /\ hook = "idle"
    /\ \E batch \in Batches, baseRet \in BaseValStats :
       \E perm \in Perms(Len(batch.x)) :
         call' = Some([batch |-> batch, baseRet |-> baseRet, perm |-> perm,
                       out |-> validation_step(batch, baseRet, perm)])
    /\ hook' = "validation_step"
    /\ UNCHANGED runVars

\* the trainer calls model.validation_end(outputs) with the per-batch results
\* of a validation pass: batch k of the pass starts at row k
ValidationEnd ==
    /\ hook = "idle"
    /\ \E k \in 0 .. MaxOutputs, baseRet \in BaseValStats :
       \E ns \in [1 .. k -> 1 .. MaxBatch], mis \in [1 .. k -> 0 .. MaxMi] :
         LET base == IF baseRet = None THEN EmptyDict ELSE Val(baseRet)
             outputs == [i \in 1 .. k |-> ValOutput(Batch(i - 1, ns[i]), mis[i], base)]
         IN  call' = Some([outputs |-> outputs, out |-> validation_end(outputs)])
    /\ hook' = "validation_end"
    /\ UNCHANGED runVars

\* the hook returns to the trainer
Return ==
    /\ hook # "idle"
    /\ hook' = "idle"
    /\ call' = None
    /\ UNCHANGED runVars

\* the run is inside tr.fit(model): the default command line, the pretrained
\* encoder loaded, callbacks, logger and trainer built
InitHooks ==
    /\ argv = [model |-> None, gpu |-> None]
    /\ rnnCkpt = TRUE
    /\ pc = "fit"
    /\ args = Some([model |-> IF argv.model = None THEN DefaultModel ELSE Val(argv.model),
                    gpu |-> DefaultGpu])
    /\ baseClass = Some(models_dict[Val(args).model])
    /\ model = Some([base |-> Val(baseClass), dataset |-> "lincs_rnn",
                     mi_modules |-> {"mine_enc", "mine_fc"}])
    /\ devices = {Cuda(MapLocationIndex)}
    /\ error = None
    /\ checkpoint = Some([filepath |-> CheckpointDir(Val(args).model),
                          save_best_only |-> FALSE, period |-> Period])
    /\ logger = Some([save_dir |-> "../logs/", name |-> LogName(Val(args).model)])
    /\ trainer = Some([gpus |-> TrainerGpus(Val(args).gpu),
                       logger |-> Val(logger),
                       checkpoint_callback |-> Val(checkpoint),
                       early_stop_callback |-> FALSE,
                       max_nb_epochs |-> MaxNbEpochs])
    /\ epoch = 0
    /\ sinceCheck = 0
    /\ written = <<>>
    /\ hook = "idle"
    /\ call = None

NextHooks ==
    \/ MiComputation
    \/ TrainingStep
    \/ ConfigureOptimizers
    \/ ValidationStep
    \/ ValidationEnd
    \/ Return

SpecHooks == InitHooks /\ [][NextHooks]_vars

----------------------------------------------------------------------------
(* Claims about the command-line run *)

Keys == {"biaae", "lat_saae", "uniaae", "cvae", "vcca", "jmvae", "vib", "saae"}

ExpectedClass ==
    {<<"biaae", "BiAAE">>, <<"lat_saae", "Lat_SAAE">>, <<"uniaae", "UniAAE">>,
     <<"cvae", "CVAE">>, <<"vcca", "VCCA">>, <<"jmvae", "JMVAE">>,
     <<"vib", "VIB">>, <<"saae", "SAAE">>}

FinalEntries == {i \in 1 .. Len(written) : written[i].kind = "final"}

\* C1: the key is the --model value, or biaae when --model is absent; the
\* experiment is built from exactly the class registered under the key
\* (biaae->BiAAE, ..., saae->SAAE); the checkpoint directory, the log name
\* and the final checkpoint file are all named after that same key.
C1_FixedMapping ==
    /\ args # None =>
         Val(args).model = (IF argv.model = None THEN "biaae" ELSE Val(argv.model))
    /\ baseClass # None =>
         /\ Val(args).model \in Keys
         /\ <<Val(args).model, Val(baseClass)>> \in ExpectedClass
    /\ model # None => <<Val(args).model, Val(model).base>> \in ExpectedClass
    /\ checkpoint # None =>
         Val(checkpoint).filepath = <<"../saved_models/lincs_rnn_", Val(args).model>>
    /\ logger # None => Val(logger).name = <<"lincs_rnn_", Val(args).model>>
    /\ trainer # None =>
         /\ Val(trainer).checkpoint_callback.filepath
              = <<"../saved_models/lincs_rnn_", Val(args).model>>
         /\ Val(trainer).logger.name = <<"lincs_rnn_", Val(args).model>>
    /\ \A i \in FinalEntries :
         written[i].path = <<"../saved_models/lincs_rnn_", Val(args).model, ".ckpt">>
    /\ pc = "done" => FinalEntries # {} /\ model # None

\* C1 witness: a completed run without --model: the default key selected
\* BiAAE and the final checkpoint file was written
C1_Witness ==
    /\ pc = "done"
    /\ argv.model = None
    /\ Val(model).base = "BiAAE"
    /\ FinalEntries # {}

\* C2: with --gpu negative (or absent, default -1) the trainer gets the empty
\* GPU list and no step of the run targets a GPU device; with --gpu g >= 0 the
\* trainer gets exactly [g].
C2_CpuRunTargetsNoGpu ==
    args # None =>
        /\ Val(args).gpu < 0 =>
             /\ trainer # None => Val(trainer).gpus = <<>>
             /\ \A d \in devices : ~IsCuda(d)
        /\ Val(args).gpu >= 0 =>
             (trainer # None => Val(trainer).gpus = <<Val(args).gpu>>)

\* C3: an unknown --model key ends the run with a lookup failure, a missing
\* pretrained encoder checkpoint ends it with an I/O failure; in both error
\* states the training loop was never started, no checkpoint callback, logger
\* or trainer exists, no checkpoint file was written, and nothing runs again.
C3_StartupFailFast ==
    /\ (args # None /\ pc # "lookup" /\ Val(args).model \notin Keys) =>
          pc = "error" /\ error = Some("KeyError")
    /\ (baseClass # None /\ pc # "construct" /\ ~rnnCkpt) =>
          pc = "error" /\ error = Some("IOError")
    /\ (error = Some("KeyError") \/ error = Some("IOError")) =>
          /\ pc = "error"
          /\ model = None
          /\ checkpoint = None
          /\ logger = None
          /\ trainer = None
          /\ epoch = 0
          /\ written = <<>>
          /\ ~ENABLED Next

\* C3 witness: a registered key, the pretrained checkpoint missing, the run
\* ended by the I/O failure
C3_Witness ==
    /\ pc = "error"
    /\ error = Some("IOError")
    /\ baseClass # None
    /\ ~rnnCkpt

\* C5: the trainer has early stopping disabled and at most 400 epochs; the
\* checkpoint callback writes after every 10th epoch regardless of improvement;
\* the final checkpoint is written once, last, only when the loop has returned
\* after its 400 epochs; a run that is not done (a failed loop included) has
\* written no final checkpoint.
C5_Lifecycle ==
    /\ trainer # None =>
         /\ Val(trainer).early_stop_callback = FALSE
         /\ Val(trainer).max_nb_epochs = 400
         /\ Val(trainer).checkpoint_callback.period = 10
         /\ Val(trainer).checkpoint_callback.save_best_only = FALSE
    /\ epoch > 0 => model # None /\ trainer # None
    /\ epoch <= 400
    /\ \A i \in 1 .. (epoch \div 10) :
         /\ i <= Len(written)
         /\ written[i] = [kind |-> "periodic",
                          path |-> <<"../saved_models/lincs_rnn_", Val(args).model>>,
                          epoch |-> 10 * i]
    /\ Len(written) = (epoch \div 10) + (IF pc = "done" THEN 1 ELSE 0)
    /\ pc = "done" =>
         /\ epoch = 400
         /\ FinalEntries = {Len(written)}
         /\ written[Len(written)].path
              = <<"../saved_models/lincs_rnn_", Val(args).model, ".ckpt">>
    /\ pc # "done" => FinalEntries = {}
    /\ pc = "save" => epoch = 400

\* C5 witness: a run that completed with all 40 periodic checkpoints and then
\* the final one
C5_Witness ==
    /\ pc = "done"
    /\ Len(written) = 41
    /\ written[40].kind = "periodic"
    /\ written[41].kind = "final"

----------------------------------------------------------------------------
(* Claims about the lifecycle hooks *)

MiKey == "mi[xz|y]"
StepKeys == {"mi[xz|y]", "x_sam", "x", "y"}
Count(s, v) == Cardinality({i \in 1 .. Len(s) : s[i] = v})

\* C4, as stated: for every base variant configure_optimizers returns the
\* base's optimizers, unchanged and in order, plus one additional optimizer
\* over the parameters of mine_fc and mine_enc.
C4_EveryVariantGetsMiOptimizer ==
    hook = "configure_optimizers" =>
        LET base == Val(call).base
            out == Val(call).out
            n == Len(base.optimizers)
        IN  /\ Len(out.optimizers) = n + 1
            /\ SubSeq(out.optimizers, 1, n) = base.optimizers
            /\ out.optimizers[n + 1].params = {"mine_fc", "mine_enc"}

\* C4, amended: when the base's configure_optimizers returns a tuple (list of
\* optimizers, list of schedulers), the result is that tuple with one
\* optimizer over the parameters of mine_fc and mine_enc appended after the
\* base optimizers, which keep their order, and the schedulers untouched; when
\* the base returns anything else, the result is the base's return value,
\* with no additional optimizer.
C4_TupleGetsMiOptimizer ==
    hook = "configure_optimizers" =>
        LET base == Val(call).base
            out == Val(call).out
            n == Len(base.optimizers)
        IN  IF base.type = "tuple"
              THEN /\ out.type = "tuple"
                   /\ Len(out.optimizers) = n + 1
                   /\ SubSeq(out.optimizers, 1, n) = base.optimizers
                   /\ out.optimizers[n + 1].params = {"mine_fc", "mine_enc"}
                   /\ out.schedulers = base.schedulers
              ELSE out = base

\* C4 witness: a tuple with two base optimizers came back with three
C4_Witness ==
    /\ hook = "configure_optimizers"
    /\ Val(call).base.type = "tuple"
    /\ Len(Val(call).base.optimizers) = 2
    /\ Len(Val(call).out.optimizers) = 3

\* C6: training_step calls the base training_step once, first.  Without an
\* optimizer index it returns the base stats with loss = base loss - mi and
\* log extended by 'mi[xz|y]' = mi, every other entry kept; with optimizer
\* index 2 it returns exactly {loss: -mi, log: {'mi[xz|y]': mi}}; with any
\* other index it returns the base stats unchanged and computes no MI term.
C6_TrainingStep ==
    hook = "training_step" =>
        LET c == Val(call)
            base == c.baseStats
            out == c.out
            stats == out.stats
        IN  /\ out.calls[1] = "super.training_step"
            /\ Count(out.calls, "super.training_step") = 1
            /\ c.args = <<>> =>
                 /\ out.mi # None
                 /\ Val(out.mi) = mi_computation(c.batch, get_latents(c.batch), c.perm).mi_lb
                 /\ DOMAIN stats = DOMAIN base
                 /\ stats["loss"] = base["loss"] - Val(out.mi)
                 /\ DOMAIN stats["log"] = DOMAIN base["log"] \cup {MiKey}
                 /\ stats["log"][MiKey] = Val(out.mi)
                 /\ \A k \in DOMAIN base["log"] \ {MiKey} : stats["log"][k] = base["log"][k]
                 /\ \A k \in DOMAIN base \ {"loss", "log"} : stats[k] = base[k]
            /\ c.args = <<2>> =>
                 /\ out.mi # None
                 /\ Val(out.mi) = mi_computation(c.batch, get_latents(c.batch), c.perm).mi_lb
                 /\ DOMAIN stats = {"loss", "log"}
                 /\ stats["loss"] = 0 - Val(out.mi)
                 /\ DOMAIN stats["log"] = {MiKey}
                 /\ stats["log"][MiKey] = Val(out.mi)
            /\ (c.args # <<>> /\ c.args # <<2>>) =>
                 /\ out.mi = None
                 /\ Count(out.calls, "mi_computation") = 0
                 /\ stats = base

\* C6 witness: a call without optimizer index on base stats that carry a
\* further entry, with a non-zero MI estimate
C6_Witness ==
    /\ hook = "training_step"
    /\ Val(call).args = <<>>
    /\ "progress_bar" \in DOMAIN Val(call).baseStats
    /\ Val(call).out.mi # None
    /\ Val(Val(call).out.mi) # 0
    /\ Val(call).out.stats["loss"] # Val(call).baseStats["loss"]

\* C8: the mismatched latents are the rows of z under a permutation p (same
\* rows, same counts); x_lat is the encoding of x in its original order; the
\* paired term scores (x_lat[i], z[i]), the contrastive term scores
\* (x_lat[i], z[p(i)]); the result is mean(paired) - log(mean(exp(mismatched)));
\* z and the batch are as they were.
C8_MiComputation ==
    hook = "mi_computation" =>
        LET c == Val(call)
            out == c.out
            n == Len(c.z)
            p == c.perm
            score(a, b) == mine_fc(<<<<a, b>>>>)[1]
        IN  /\ DOMAIN p = 1 .. n
            /\ {p[i] : i \in 1 .. n} = 1 .. n
            /\ Len(out.z_shuffled) = n
            /\ \A i \in 1 .. n : out.z_shuffled[i] = c.z[p[i]]
            /\ \A i \in 1 .. n : Count(out.z_shuffled, c.z[i]) = Count(c.z, c.z[i])
            /\ Len(out.x_lat) = n
            /\ \A i \in 1 .. n : out.x_lat[i] = mine_enc(<<c.batch.x[i]>>)[1]
            /\ Len(out.t) = n /\ Len(out.et) = n
            /\ \A i \in 1 .. n : out.t[i] = score(out.x_lat[i], c.z[i])
            /\ \A i \in 1 .. n : out.et[i] = Exp(score(out.x_lat[i], c.z[p[i]]))
            /\ out.mi_lb = (Sum(out.t) \div n) - Log(Sum(out.et) \div n)
            /\ out.z = c.z
            /\ out.batch = c.batch

\* C8 witness: a batch of at least three rows shuffled by a permutation that
\* changes z, so that the paired and the mismatched scores differ
C8_Witness ==
    /\ hook = "mi_computation"
    /\ Len(Val(call).z) >= 3
    /\ Val(call).out.z_shuffled # Val(call).z
    /\ \E i \in 1 .. Len(Val(call).z) : Val(call).out.et[i] # Exp(Val(call).out.t[i])

C10_ValidationEnd ==
    hook = "validation_end" =>
        LET outputs == Val(call).outputs
            out == Val(call).out
            k == Len(outputs)
        IN  IF k = 0
              THEN out.raised /\ out.images = <<>> /\ out.ret = None
              ELSE LET n == Len(outputs[1]["x"])
                       m == IF n < 5 THEN n ELSE 5
                       mols == out.images[1].mols
                   IN  /\ ~out.raised
                       /\ out.ret # None
                       /\ DOMAIN Val(out.ret) = {"log"}
                       /\ DOMAIN Val(out.ret)["log"] = {"val_mi[xz|y]"}
                       /\ Val(out.ret)["log"]["val_mi[xz|y]"]
                            = Sum([i \in 1 .. k |-> outputs[i]["mi[xz|y]"]]) \div k
                       /\ Len(out.images) = 1
                       /\ out.images[1].tag = "samples"
                       /\ Len(mols) = 2 * m
                       /\ \A i \in 1 .. m :
                            /\ mols[i] = MolFromSmiles(outputs[1]["x_sam"][i])
                            /\ mols[m + i] = MolFromSmiles(outputs[1]["x"][i])

\* C10 witness: a pass of two batches carrying a base statistic, the first of
\* more than 5 rows and unlike the second, whose image holds 5 samples and 5
\* inputs
C10_Witness ==
    /\ hook = "validation_end"
    /\ Len(Val(call).outputs) = 2
    /\ Len(Val(call).outputs[1]["x"]) > 5
    /\ Val(call).outputs[1]["mi[xz|y]"] # Val(call).outputs[2]["mi[xz|y]"]
    /\ "val_loss" \in DOMAIN Val(call).outputs[1]
    /\ Len(Val(call).out.images[1].mols) = 10

=============================================================================
